---------------------------- MODULE Spec2Model ----------------------------
(***************************************************************************)
(* A model of the FIR reporting portal: the two Flask entry points of the  *)
(* repository (src/app.py, the SQLite application, and src/api/app.py, the *)
(* in-memory serverless entry point), the analysis adapter analyze_fir     *)
(* with its fallback loop and reply parsing, and the PDF text preparation  *)
(* (safe_text / generate_fir_pdf).                                         *)
(*                                                                         *)
(* Python values.  A value that may be None or a str is a record: None, or *)
(* Str(s) with s a sequence of characters.  In reply texts the two section *)
(* labels "Suggested Laws:" and "Recommended Actions:" are single elements *)
(* of the sequence: neither label overlaps itself or the other, so every   *)
(* Python string splits in exactly one way into label occurrences and      *)
(* other characters, and str.split / in / replace on a label act on the    *)
(* sequence element by element.  A fixed message of the code is a one      *)
(* element sequence holding the message.                                   *)
(***************************************************************************)
EXTENDS Naturals, Integers, Sequences, FiniteSets, TLC

VARIABLES
    api_key,        \* src/app.py:57, src/api/app.py:17  os.getenv("GEN_API_KEY")
    DEFAULT_MODEL,  \* src/app.py:58  os.getenv("GEN_MODEL", "gemini-1.5-flash")
    deployment,     \* which entry point is the running process: "app" or "api"
    users,          \* table users (src/app.py:21) / list users (src/api/app.py:29)
    fir_reports,    \* table fir_reports (src/app.py:28) / list fir_reports (src/api/app.py:30)
    session,        \* the Flask session of each client (browser cookie)
    submitter,      \* history: for each stored report, the session user of the request that stored it
    resp,           \* the last HTTP exchange: the request handled and the response sent
    input,          \* the arguments of the pure function under study
    call            \* the last call of a pure function and what it returned

vars == <<api_key, DEFAULT_MODEL, deployment, users, fir_reports, session,
          submitter, resp, input, call>>

---------------------------------------------------------------------------
(* Python values *)

None == [t |-> "none"]
Str(s) == [t |-> "str", s |-> s]

\* Python truthiness of an optional string: `if x` / `not x`
Truthy(v) == v.t = "str" /\ v.s # <<>>

\* str.isspace() of one character
IsSpace(c) == c = " "

SL == "Suggested Laws:"
RA == "Recommended Actions:"

\* `sep in text`
Contains(text, sep) == \E i \in 1..Len(text) : text[i] = sep

\* index of the first occurrence of sep in text (text contains sep)
FirstIndex(text, sep) == CHOOSE i \in 1..Len(text) :
                             text[i] = sep /\ \A j \in 1..(i-1) : text[j] # sep

\* text.split(sep): the pieces between the occurrences of sep, left to right
RECURSIVE Split(_, _)
Split(text, sep) ==
    IF ~Contains(text, sep) THEN <<text>>
    ELSE LET i == FirstIndex(text, sep)
         IN  <<SubSeq(text, 1, i-1)>> \o Split(SubSeq(text, i+1, Len(text)), sep)

\* text.lstrip() / text.rstrip() / text.strip()
RECURSIVE LStrip(_)
LStrip(text) == IF text # <<>> /\ IsSpace(Head(text)) THEN LStrip(Tail(text)) ELSE text

RECURSIVE RStrip(_)
RStrip(text) == IF text # <<>> /\ IsSpace(text[Len(text)])
                THEN RStrip(SubSeq(text, 1, Len(text)-1)) ELSE text

Strip(text) == RStrip(LStrip(text))

\* text.replace(sep, "")
Replace(text, sep) == SelectSeq(text, LAMBDA c : c # sep)

---------------------------------------------------------------------------
(* The analysis adapter *)

NO_KEY      == <<"Analysis failed: API key not configured.">>
TRY_AGAIN   == <<"Try again later">>
PARSE_FAIL  == <<"Analysis failed: Could not parse AI response.">>
SEE_BELOW   == <<"See AI analysis below.">>
GUIDANCE    == <<"Analysis failed: Could not reach a supported model. Make sure your API key is correct and the model name is available.">>
API_ERROR   == <<"Analysis failed: An API or network error occurred. Check the server console for details.">>
BLOCKED     == <<"Analysis failed: AI response was blocked by safety filters or an internal error occurred.">>
BAD_FORMAT  == <<"Analysis failed: Unexpected response format from AI.">>

\* str(response): the repr of a response object that carries no usable text
StrOfResponse == <<"<GenerateContentResponse>">>

\* What one request to the remote service does: it raises, or it returns a
\* response whose .text is None/absent or a string.
Raise == [kind |-> "raise"]
Response(v) == [kind |-> "response", text |-> v]

FALLBACK_MODELS ==
    <<DEFAULT_MODEL, "gemini-1.5", "gemini-1.5-pro", "gemini-1.5-preview", "gemini-1.0">>

\* str(x) as an f-string embeds it
PyStr(v) == IF v = None THEN <<"N", "o", "n", "e">> ELSE v.s

\* src/app.py:149-156: the prompt, the description embedded in fixed text
Prompt(description) ==
    <<"You are a legal assistant. [...] Description: \"">> \o PyStr(description)
        \o <<"\" Suggested Laws: [...] Recommended Actions: [...]">>

\* One request: model.generate_content(prompt) on GenerativeModel(candidate)
Request(candidate, prompt) == [model |-> candidate, prompt |-> prompt]

\* What analyze_fir hands back: the pair returned, and the requests it issued
\* (in the order generate_content was called), or an exception that left the
\* function.
Returned(laws, actions, requests) ==
    [raised |-> FALSE, laws |-> laws, actions |-> actions, requests |-> requests]
Raised(requests) ==
    [raised |-> TRUE, laws |-> <<>>, actions |-> <<>>, requests |-> requests]

\* ParseReply with the .strip() of the laws forgotten where only
\* "Recommended Actions:" splits the text
ParseReply_PartialLawsUnstripped(text) ==
    IF text # <<>> /\ Contains(text, SL) /\ Contains(text, RA)
    THEN [laws    |-> Strip(Split(Split(text, SL)[2], RA)[1]),
          actions |-> Strip(Split(text, RA)[2])]
    ELSE IF text # <<>>
    THEN LET parts == Split(text, RA)
         IN  IF Len(parts) = 2
             THEN [laws    |-> Replace(parts[1], SL),
                   actions |-> Strip(parts[2])]
             ELSE [laws |-> SEE_BELOW, actions |-> Strip(text)]
    ELSE [laws |-> PARSE_FAIL, actions |-> TRY_AGAIN]

\* ParseReply with the .strip() of the actions section forgotten
ParseReply_ActionsUnstripped(text) ==
    IF text # <<>> /\ Contains(text, SL) /\ Contains(text, RA)
    THEN [laws    |-> Strip(Split(Split(text, SL)[2], RA)[1]),
          actions |-> Split(text, RA)[2]]
    ELSE IF text # <<>>
    THEN LET parts == Split(text, RA)
         IN  IF Len(parts) = 2
             THEN [laws    |-> Strip(Replace(parts[1], SL)),
                   actions |-> Strip(parts[2])]
             ELSE [laws |-> SEE_BELOW, actions |-> Strip(text)]
    ELSE [laws |-> PARSE_FAIL, actions |-> TRY_AGAIN]

\* src/app.py:170-185: the parse of one candidate's reply text
ParseReply(text) ==
    IF text # <<>> /\ Contains(text, SL) /\ Contains(text, RA)
    THEN [laws    |-> Strip(Split(Split(text, SL)[2], RA)[1]),
          actions |-> Strip(Split(text, RA)[2])]
    ELSE IF text # <<>>
    THEN LET parts == Split(text, RA)
         IN  IF Len(parts) = 2
             THEN [laws    |-> Strip(Replace(parts[1], SL)),
                   actions |-> Strip(parts[2])]
             ELSE [laws |-> SEE_BELOW, actions |-> Strip(text)]
    ELSE [laws |-> PARSE_FAIL, actions |-> TRY_AGAIN]

\* src/app.py:166-168: text = getattr(response, "text", None); if not text: text = str(response)
ReplyText(response) ==
    IF Truthy(response.text) THEN response.text.s ELSE StrOfResponse

\* src/app.py:159-190: the loop over FALLBACK_MODELS from position i on
RECURSIVE FallbackLoop(_, _, _, _, _)

\* FallbackLoop with `break` for `continue` in the except clause: the first
\* failing request ends the loop
FallbackLoop_BreaksOnFailure(models, svc, prompt, i, requests) ==
    IF i > Len(models) THEN Returned(GUIDANCE, TRY_AGAIN, requests)
    ELSE LET candidate == models[i]
         IN  IF candidate = "" THEN FallbackLoop(models, svc, prompt, i+1, requests)
             ELSE LET response == svc[candidate]
                      issued   == Append(requests, Request(candidate, prompt))
                  IN  IF response.kind = "raise"
                      THEN Returned(GUIDANCE, TRY_AGAIN, issued)
                      ELSE LET p == ParseReply(ReplyText(response))
                           IN  Returned(p.laws, p.actions, issued)

\* FallbackLoop that re-raises last_exception once the list is exhausted
FallbackLoop_RaisesWhenExhausted(models, svc, prompt, i, requests) ==
    IF i > Len(models)
    THEN IF requests = <<>> THEN Returned(GUIDANCE, TRY_AGAIN, requests)
         ELSE Raised(requests)
    ELSE LET candidate == models[i]
         IN  IF candidate = "" THEN FallbackLoop(models, svc, prompt, i+1, requests)
             ELSE LET response == svc[candidate]
                      issued   == Append(requests, Request(candidate, prompt))
                  IN  IF response.kind = "raise"
                      THEN FallbackLoop(models, svc, prompt, i+1, issued)
                      ELSE LET p == ParseReply(ReplyText(response))
                           IN  Returned(p.laws, p.actions, issued)

FallbackLoop(models, svc, prompt, i, requests) ==
    IF i > Len(models) THEN Returned(GUIDANCE, TRY_AGAIN, requests)
    ELSE LET candidate == models[i]
         IN  IF candidate = "" THEN FallbackLoop(models, svc, prompt, i+1, requests)
             ELSE LET response == svc[candidate]
                      issued   == Append(requests, Request(candidate, prompt))
                  IN  IF response.kind = "raise"
                      THEN FallbackLoop(models, svc, prompt, i+1, issued)
                      ELSE LET p == ParseReply(ReplyText(response))
                           IN  Returned(p.laws, p.actions, issued)

\* analyze_fir with `if api_key is None` for `if not api_key`: an empty
\* GEN_API_KEY passes the check
analyze_fir_KeyNoneOnly(key, models, svc, description) ==
    IF key = None THEN Returned(NO_KEY, TRY_AGAIN, <<>>)
    ELSE FallbackLoop(models, svc, Prompt(description), 1, <<>>)

\* src/app.py:144-197
analyze_fir(key, models, svc, description) ==
    IF ~Truthy(key) THEN Returned(NO_KEY, TRY_AGAIN, <<>>)
    ELSE FallbackLoop(models, svc, Prompt(description), 1, <<>>)

\* src/api/app.py:104-115: the parse of the reply text
ApiParseReply(text) ==
    LET parsed == IF Contains(text, SL) /\ Contains(text, RA)
                  THEN IF Len(Split(text, SL)) < 2 \/ Len(Split(text, RA)) < 2
                       THEN [laws |-> BAD_FORMAT, actions |-> TRY_AGAIN]
                       ELSE [laws    |-> Strip(Split(Split(text, SL)[2], RA)[1]),
                             actions |-> Strip(Split(text, RA)[2])]
                  ELSE [laws |-> PARSE_FAIL, actions |-> TRY_AGAIN]
    IN  IF text = <<>> THEN [laws |-> BLOCKED, actions |-> TRY_AGAIN] ELSE parsed

\* src/api/app.py:78-121
api_analyze_fir(key, svc, description) ==
    IF ~Truthy(key) THEN Returned(NO_KEY, TRY_AGAIN, <<>>)
    ELSE LET response == svc["gemini-1.5-flash"]
             issued   == <<Request("gemini-1.5-flash", Prompt(description))>>
         IN  IF response.kind = "raise" \/ response.text = None
             THEN Returned(API_ERROR, TRY_AGAIN, issued)
             ELSE LET p == ApiParseReply(response.text.s)
                  IN  Returned(p.laws, p.actions, issued)

---------------------------------------------------------------------------
(* The state of the web application when no request has been handled; the  *)
(* specifications of the pure functions leave it alone.                    *)

Clients == {"c1"}

NoSession == [user_id |-> 0, user |-> None]
NoCall == [fn |-> "none"]
NoInput == [family |-> "none"]
NoExchange == [op |-> "none"]

WebStart ==
    /\ users = <<>>
    /\ fir_reports = <<>>
    /\ submitter = <<>>
    /\ session = [c \in Clients |-> NoSession]
    /\ resp = NoExchange

webvars == <<deployment, users, fir_reports, session, submitter, resp>>

---------------------------------------------------------------------------
(* analyze_fir as a function of the configuration, the description and the *)
(* behaviour of the remote service.                                        *)

MaxReplyLen == 5

ReplyChars == {SL, RA, "x", " "}
Texts(n) == UNION {[1..k -> ReplyChars] : k \in 0..n}

ModelNames == {"gemini-1.5-flash", "gemini-1.5", "gemini-1.5-pro",
               "gemini-1.5-preview", "gemini-1.0"}

GoodReply == <<SL, " ", "x", " ", RA, " ", "x">>

Descriptions == {None, Str(<<>>), Str(<<"x">>)}
ApiKeys == {None, Str(<<>>), Str(<<"k">>)}
\* GEN_MODEL unset, set to the empty string, set to a name of the fallback list
DefaultModels == {"gemini-1.5-flash", "", "gemini-1.5"}

\* every combination of configuration, description and per-model outcome
ConfigInputs ==
    [family : {"config"}, description : Descriptions,
     svc : [ModelNames -> {Raise, Response(None), Response(Str(GoodReply))}]]

\* every reply text up to MaxReplyLen, returned by every model
TextInputs ==
    {[family |-> "text", description |-> Str(<<"x">>),
      svc |-> [m \in ModelNames |-> Response(Str(t))]] : t \in Texts(MaxReplyLen)}

InitAnalyze ==
    /\ WebStart
    /\ deployment = "app"
    /\ call = NoCall
    /\ \/ /\ input \in ConfigInputs
          /\ api_key \in ApiKeys
          /\ DEFAULT_MODEL \in DefaultModels
       \/ /\ input \in TextInputs
          /\ api_key = Str(<<"k">>)
          /\ DEFAULT_MODEL = "gemini-1.5-flash"

\* analyze_fir of src/app.py is called
CallAnalyze ==
    /\ call = NoCall
    /\ call' = [fn |-> "analyze_fir",
                result |-> analyze_fir(api_key, FALLBACK_MODELS, input.svc, input.description)]
    /\ UNCHANGED <<api_key, DEFAULT_MODEL, input, webvars>>

\* analyze_fir of src/api/app.py is called
CallApiAnalyze ==
    /\ call = NoCall
    /\ call' = [fn |-> "api_analyze_fir",
                result |-> api_analyze_fir(api_key, input.svc, input.description)]
    /\ UNCHANGED <<api_key, DEFAULT_MODEL, input, webvars>>

NextAnalyze == CallAnalyze \/ CallApiAnalyze

SpecAnalyze == InitAnalyze /\ [][NextAnalyze]_vars


---------------------------------------------------------------------------
(* Properties of analyze_fir, stated over the last call *)

Analyzed == call.fn \in {"analyze_fir", "api_analyze_fir"}

\* The reply the call parsed: the response to the last request it issued
LastRequest == call.result.requests[Len(call.result.requests)]
Answered ==
    /\ Analyzed
    /\ call.result.requests # <<>>
    /\ input.svc[LastRequest.model].kind = "response"
    /\ Truthy(input.svc[LastRequest.model].text)
AnswerText == input.svc[LastRequest.model].text.s

Occurrences(text, sep) == {i \in 1..Len(text) : text[i] = sep}
Min(S) == CHOOSE n \in S : \A m \in S : n <= m

\* The two labels occur in that order: some "Recommended Actions:" follows
\* the first "Suggested Laws:".
InOrder(text) ==
    /\ Occurrences(text, SL) # {}
    /\ \E j \in Occurrences(text, RA) : j > Min(Occurrences(text, SL))
LawsLabel(text) == Min(Occurrences(text, SL))
ActionsLabel(text) == Min({j \in Occurrences(text, RA) : j > LawsLabel(text)})
Between(text) == SubSeq(text, LawsLabel(text) + 1, ActionsLabel(text) - 1)
After(text) == SubSeq(text, ActionsLabel(text) + 1, Len(text))

\* C1: for every description and every behaviour of the remote service,
\* analyze_fir returns without raising and both strings of the returned pair
\* are non-empty.
C1_PairNeverEmpty ==
    Analyzed => /\ ~call.result.raised
                /\ call.result.laws # <<>>
                /\ call.result.actions # <<>>

\* What does hold of every call: it returns (no exception leaves analyze_fir).
AnalyzeNeverRaises == Analyzed => ~call.result.raised

\* C2: with no API credential configured (GEN_API_KEY unset or empty),
\* analyze_fir returns exactly ("Analysis failed: API key not configured.",
\* "Try again later") and issues no request at all.
C2_NoKeyFixedPairNoRequest ==
    (Analyzed /\ ~Truthy(api_key)) =>
        /\ ~call.result.raised
        /\ call.result.laws = <<"Analysis failed: API key not configured.">>
        /\ call.result.actions = <<"Try again later">>
        /\ call.result.requests = <<>>

\* C2 witness: analyze_fir of src/app.py was called without a credential while
\* every model would have answered.
C2_Witness ==
    /\ call.fn = "analyze_fir"
    /\ api_key = None
    /\ input.family = "config"
    /\ \A m \in ModelNames : input.svc[m].kind = "response"

\* C3 as stated: whenever the reply holds both labels in that order (labels may
\* repeat), laws are the trimmed text between the two labels and actions the
\* trimmed text after the second label.
C3_SectionsWhateverRepeats ==
    (Answered /\ InOrder(AnswerText)) =>
        /\ call.result.laws = Strip(Between(AnswerText))
        /\ call.result.actions = Strip(After(AnswerText))

\* The replies C3 holds for: "Recommended Actions:" occurs once, after the
\* first "Suggested Laws:", and no second "Suggested Laws:" stands between them.
CleanSections(text) ==
    /\ InOrder(text)
    /\ Cardinality(Occurrences(text, RA)) = 1
    /\ \A i \in Occurrences(text, SL) :
           i = LawsLabel(text) \/ i > ActionsLabel(text)

\* C3 amended: when the reply holds "Recommended Actions:" exactly once, after
\* the first "Suggested Laws:" and with no other "Suggested Laws:" between the
\* two, laws are the trimmed text between the two labels and actions the
\* trimmed text after "Recommended Actions:".
C3_SectionsOfCleanReply ==
    (Answered /\ CleanSections(AnswerText)) =>
        /\ call.result.laws = Strip(Between(AnswerText))
        /\ call.result.actions = Strip(After(AnswerText))

\* C3 witness: a reply with text around both labels was parsed by src/app.py
C3_Witness ==
    /\ call.fn = "analyze_fir"
    /\ Answered
    /\ AnswerText = <<SL, " ", "x", RA, "x">>
    /\ call.result.laws = <<"x">>
    /\ call.result.actions = <<"x">>

\* The reply holds "Recommended Actions:" and no "Suggested Laws:": the
\* branch for both labels does not apply.
OnlyActionsLabel(text) ==
    /\ Occurrences(text, RA) # {}
    /\ Occurrences(text, SL) = {}
BeforeActions(text) == SubSeq(text, 1, Min(Occurrences(text, RA)) - 1)
AfterActions(text) == SubSeq(text, Min(Occurrences(text, RA)) + 1, Len(text))

\* C11 as stated: whenever the reply src/app.py parses holds "Recommended
\* Actions:" and the branch for both labels does not apply, laws are the
\* trimmed text before the label and actions the trimmed text after it, and
\* the reply is not handed back whole as actions under "See AI analysis below.".
C11_PartialWheneverActionsLabel ==
    (call.fn = "analyze_fir" /\ Answered /\ OnlyActionsLabel(AnswerText)) =>
        /\ call.result.laws = Strip(BeforeActions(AnswerText))
        /\ call.result.actions = Strip(AfterActions(AnswerText))
        /\ call.result.laws # SEE_BELOW

\* C11 amended: when the reply src/app.py parses holds "Recommended Actions:"
\* exactly once and no "Suggested Laws:", laws are the trimmed text before the
\* label and actions the trimmed text after it, and the reply is not handed
\* back whole as actions.
C11_PartialWhenOneActionsLabel ==
    (/\ call.fn = "analyze_fir"
     /\ Answered
     /\ OnlyActionsLabel(AnswerText)
     /\ Cardinality(Occurrences(AnswerText, RA)) = 1) =>
        /\ call.result.laws = Strip(BeforeActions(AnswerText))
        /\ call.result.actions = Strip(AfterActions(AnswerText))
        /\ call.result.laws # SEE_BELOW

\* C11 witness: src/app.py parsed a reply with text on both sides of a single
\* "Recommended Actions:" and no "Suggested Laws:"
C11_Witness ==
    /\ call.fn = "analyze_fir"
    /\ Answered
    /\ AnswerText = <<"x", " ", RA, " ", "x">>
    /\ call.result.laws = <<"x">>
    /\ call.result.actions = <<"x">>

\* The candidates analyze_fir can ask: the non-empty names of the list
Askable(models) == SelectSeq(models, LAMBDA c : c # "")
\* how many of them are asked: up to the first whose request returns
AskedCount(models) ==
    LET a == Askable(models)
        ok == {i \in 1..Len(a) : input.svc[a[i]].kind = "response"}
    IN  IF ok = {} THEN Len(a) ELSE Min(ok)

\* C5 as stated: with a credential, the number of requests is the position in
\* the configured list of the first candidate whose request does not fail, or
\* the number of candidates if all fail, the requests going to the candidates
\* in configured order.
C5_RequestsCountConfigured ==
    (call.fn = "analyze_fir" /\ Truthy(api_key)) =>
        LET ok == {i \in 1..Len(FALLBACK_MODELS) :
                      /\ FALLBACK_MODELS[i] # ""
                      /\ input.svc[FALLBACK_MODELS[i]].kind = "response"}
            n  == IF ok = {} THEN Len(FALLBACK_MODELS) ELSE Min(ok)
        IN  /\ Len(call.result.requests) = n
            /\ \A i \in 1..n : call.result.requests[i].model = FALLBACK_MODELS[i]

\* C5 amended: with a credential, analyze_fir asks the candidates with a
\* non-empty name in configured order, one request each, and stops at the
\* first whose request returns: the number of requests is the position of
\* that candidate among the non-empty names, or their number if all fail.
C5_RequestsInOrderUntilFirstResponse ==
    (call.fn = "analyze_fir" /\ Truthy(api_key)) =>
        LET a == Askable(FALLBACK_MODELS)
            n == AskedCount(FALLBACK_MODELS)
        IN  /\ Len(call.result.requests) = n
            /\ \A i \in 1..n :
                   call.result.requests[i] = Request(a[i], Prompt(input.description))
            /\ \A i \in 1..(n-1) : input.svc[a[i]].kind = "raise"

\* C5 witness: the first two candidates failed, the third answered, and later
\* candidates would have answered too.
C5_Witness ==
    /\ call.fn = "analyze_fir"
    /\ Truthy(api_key)
    /\ DEFAULT_MODEL = "gemini-1.5-flash"
    /\ input.svc["gemini-1.5-flash"].kind = "raise"
    /\ input.svc["gemini-1.5"].kind = "raise"
    /\ input.svc["gemini-1.5-pro"].kind = "response"
    /\ input.svc["gemini-1.5-preview"].kind = "response"
    /\ Len(call.result.requests) = 3

AllRequestsFail ==
    \A i \in 1..Len(FALLBACK_MODELS) :
        FALLBACK_MODELS[i] # "" => input.svc[FALLBACK_MODELS[i]].kind = "raise"

\* C6: with a credential, if the request to every candidate fails,
\* analyze_fir returns exactly the fixed pair ("Analysis failed: Could not
\* reach a supported model. ...", "Try again later") and no exception leaves it.
C6_ExhaustionFixedPair ==
    (call.fn = "analyze_fir" /\ Truthy(api_key) /\ AllRequestsFail) =>
        /\ ~call.result.raised
        /\ call.result.laws = <<"Analysis failed: Could not reach a supported model. Make sure your API key is correct and the model name is available.">>
        /\ call.result.actions = <<"Try again later">>

\* C6 witness: all five candidates were asked and all failed
C6_Witness ==
    /\ call.fn = "analyze_fir"
    /\ Truthy(api_key)
    /\ AllRequestsFail
    /\ Len(call.result.requests) = 5

---------------------------------------------------------------------------
(* The document renderer: textwrap.wrap as safe_text uses it (default       *)
(* options: whitespace replaced by spaces, long words broken, whitespace at *)
(* line ends dropped), on texts without hyphens, and width >= 1.            *)

IsWs(c) == c \in {" ", "\n"}

\* TextWrapper._munge_whitespace: every whitespace character becomes a space
Munge(text) == [i \in 1..Len(text) |-> IF IsWs(text[i]) THEN " " ELSE text[i]]

\* length of the run of characters of one kind that starts the text
RECURSIVE RunLength(_)
RunLength(text) ==
    IF Len(text) <= 1 THEN Len(text)
    ELSE IF IsWs(text[1]) = IsWs(text[2]) THEN 1 + RunLength(Tail(text)) ELSE 1

\* TextWrapper._split: the text as alternating runs of whitespace and of
\* other characters
RECURSIVE SplitChunks(_)
SplitChunks(text) ==
    IF text = <<>> THEN <<>>
    ELSE LET n == RunLength(text)
         IN  <<SubSeq(text, 1, n)>> \o SplitChunks(SubSeq(text, n+1, Len(text)))

\* chunk.strip() == ''
IsBlank(chunk) == \A i \in 1..Len(chunk) : IsWs(chunk[i])

RECURSIVE Concat(_)
Concat(chunks) == IF chunks = <<>> THEN <<>> ELSE Head(chunks) \o Concat(Tail(chunks))

\* sep.join(lines)
RECURSIVE Join(_, _)
Join(lines, sep) ==
    IF lines = <<>> THEN <<>>
    ELSE IF Len(lines) = 1 THEN lines[1]
    ELSE lines[1] \o <<sep>> \o Join(Tail(lines), sep)

\* TextWrapper._wrap_chunks, inner loop: chunks move to the line while they fit
RECURSIVE FillLine(_, _, _)
FillLine(chunks, width, cur_line) ==
    IF chunks # <<>> /\ Len(Concat(cur_line)) + Len(Head(chunks)) <= width
    THEN FillLine(Tail(chunks), width, Append(cur_line, Head(chunks)))
    ELSE [cur_line |-> cur_line, chunks |-> chunks]

\* TextWrapper._handle_long_word with break_long_words: the next chunk is
\* longer than a whole line, so as much of it as fits ends this line
HandleLongWord(filled, width) ==
    IF filled.chunks # <<>> /\ Len(Head(filled.chunks)) > width
    THEN LET cur_len    == Len(Concat(filled.cur_line))
             space_left == IF width < 1 THEN 1 ELSE width - cur_len
             chunk      == Head(filled.chunks)
         IN  [cur_line |-> Append(filled.cur_line, SubSeq(chunk, 1, space_left)),
              chunks   |-> <<SubSeq(chunk, space_left + 1, Len(chunk))>>
                               \o Tail(filled.chunks)]
    ELSE filled

\* drop_whitespace: a line does not end with a whitespace chunk
DropTrailingBlank(cur_line) ==
    IF cur_line # <<>> /\ IsBlank(cur_line[Len(cur_line)])
    THEN SubSeq(cur_line, 1, Len(cur_line) - 1) ELSE cur_line

\* TextWrapper._wrap_chunks, outer loop
RECURSIVE WrapChunks(_, _, _)
WrapChunks(chunks, width, lines) ==
    IF chunks = <<>> THEN lines
    ELSE LET start  == IF IsBlank(Head(chunks)) /\ lines # <<>>
                       THEN Tail(chunks) ELSE chunks
             broken == HandleLongWord(FillLine(start, width, <<>>), width)
             line   == DropTrailingBlank(broken.cur_line)
         IN  WrapChunks(broken.chunks, width,
                        IF line # <<>> THEN Append(lines, Concat(line)) ELSE lines)

\* textwrap.wrap(text, width): the list of lines
Wrap(text, width) == WrapChunks(SplitChunks(Munge(text)), width, <<>>)

\* src/app.py:249-251: re.sub(r"(\S{width,})", ...): every maximal run of at
\* least `width` non-whitespace characters is replaced by its wrap, the
\* pieces joined by spaces
RECURSIVE BreakLongRuns(_, _)
BreakLongRuns(chunks, width) ==
    IF chunks = <<>> THEN <<>>
    ELSE LET c == Head(chunks)
         IN  (IF ~IsBlank(c) /\ Len(c) >= width THEN Join(Wrap(c, width), " ") ELSE c)
                 \o BreakLongRuns(Tail(chunks), width)

NA == <<"N", "/", "A">>

\* safe_text with the final textwrap.wrap forgotten: long runs are broken by
\* spaces, the text is not cut into lines
safe_text_NoFinalWrap(text, width) ==
    IF ~Truthy(text) THEN NA
    ELSE BreakLongRuns(SplitChunks(text.s), width)

\* src/app.py:246-252
safe_text(text, width) ==
    IF ~Truthy(text) THEN NA
    ELSE Join(Wrap(BreakLongRuns(SplitChunks(text.s), width), width), "\n")

\* the lines of a rendered text: text.split("\n")
Lines(text) == Split(text, "\n")

DefaultWidth == 100

\* src/app.py:280-295
FIELDS == <<
    [label |-> "Complainant",         key |-> "name"],
    [label |-> "Email",               key |-> "email"],
    [label |-> "Phone",               key |-> "phone"],
    [label |-> "Accused",             key |-> "accused_name"],
    [label |-> "Role",                key |-> "accused_role"],
    [label |-> "Incident Date",       key |-> "incident_date"],
    [label |-> "Location",            key |-> "location_details"],
    [label |-> "Violation Type",      key |-> "violation_type"],
    [label |-> "Description",         key |-> "description"],
    [label |-> "Company",             key |-> "company"],
    [label |-> "Company Address",     key |-> "company_address"],
    [label |-> "Industry",            key |-> "industry"],
    [label |-> "Suggested Laws",      key |-> "laws"],
    [label |-> "Recommended Actions", key |-> "actions"] >>

RenderedKeys == {FIELDS[i].key : i \in 1..Len(FIELDS)}

\* dict.get(key, default)
Get(d, key, default) == IF key \in DOMAIN d THEN d[key] ELSE default

\* What a renderer hands back: the font family chosen and the cells written
\* (a label line and the text under it), or an exception.
Rendered(font, cells) == [raised |-> FALSE, font |-> font, cells |-> cells]
RenderFailed == [raised |-> TRUE, font |-> "", cells |-> <<>>]

\* src/app.py:254-309
generate_fir_pdf(fir_dict, fonts_present) ==
    Rendered(IF fonts_present THEN "DejaVu" ELSE "Arial",
             [i \in 1..Len(FIELDS) |->
                 [label |-> FIELDS[i].label,
                  text  |-> safe_text(Get(fir_dict, FIELDS[i].key, Str(NA)), DefaultWidth)]])

\* src/api/app.py:172-176
API_FIELDS == <<
    [label |-> "Name",                key |-> "name"],
    [label |-> "Company",             key |-> "company"],
    [label |-> "Description",         key |-> "description"],
    [label |-> "Suggested Laws",      key |-> "laws"],
    [label |-> "Recommended Actions", key |-> "actions"] >>

\* src/api/app.py:162-179: fir[key] raises KeyError on an absent key, and an
\* f-string writes None as "None"
api_generate_fir_pdf(fir) ==
    IF \E i \in 1..Len(API_FIELDS) : API_FIELDS[i].key \notin DOMAIN fir
    THEN RenderFailed
    ELSE Rendered("Arial",
                  [i \in 1..Len(API_FIELDS) |->
                      [label |-> API_FIELDS[i].label,
                       text  |-> PyStr(fir[API_FIELDS[i].key])]])

---------------------------------------------------------------------------
(* safe_text and the renderers as functions of their arguments *)

MaxTextLen == 6
MaxWidth == 4

WrapChars == {"a", " ", "\n"}
WrapTexts(n) == UNION {[1..k -> WrapChars] : k \in 0..n}

\* every text up to MaxTextLen (and None) with every width up to MaxWidth
WrapInputs ==
    [family : {"wrap"},
     text   : {None} \cup {Str(t) : t \in WrapTexts(MaxTextLen)},
     width  : 1..MaxWidth]

\* how a field is missing from a record: the key is absent, its value is
\* None (SQL NULL), or its value is the empty string
MissingKinds == {"absent", "null", "empty"}

RecordWith(missing, kind) ==
    [k \in (IF kind = "absent" THEN RenderedKeys \ missing ELSE RenderedKeys) |->
        IF k \notin missing THEN Str(<<"a">>)
        ELSE IF kind = "null" THEN None ELSE Str(<<>>)]

\* every record in which a subset of the rendered fields is missing
RecordInputs ==
    {[family |-> "record", fir |-> RecordWith(missing, kind), fonts |-> fonts] :
        missing \in SUBSET RenderedKeys, kind \in MissingKinds, fonts \in BOOLEAN}

InitRender ==
    /\ WebStart
    /\ deployment = "app"
    /\ api_key = None
    /\ DEFAULT_MODEL = "gemini-1.5-flash"
    /\ call = NoCall
    /\ input \in WrapInputs \cup RecordInputs

CallSafeText ==
    /\ call = NoCall
    /\ input.family = "wrap"
    /\ call' = [fn |-> "safe_text", result |-> safe_text(input.text, input.width)]
    /\ UNCHANGED <<api_key, DEFAULT_MODEL, input, webvars>>

CallGenerateFirPdf ==
    /\ call = NoCall
    /\ input.family = "record"
    /\ call' = [fn |-> "generate_fir_pdf",
                result |-> generate_fir_pdf(input.fir, input.fonts)]
    /\ UNCHANGED <<api_key, DEFAULT_MODEL, input, webvars>>

\* (every record src/api/app.py stores holds all the keys its renderer reads)
CallApiGenerateFirPdf ==
    /\ call = NoCall
    /\ input.family = "record"
    /\ \A i \in 1..Len(API_FIELDS) : API_FIELDS[i].key \in DOMAIN input.fir
    /\ call' = [fn |-> "api_generate_fir_pdf", result |-> api_generate_fir_pdf(input.fir)]
    /\ UNCHANGED <<api_key, DEFAULT_MODEL, input, webvars>>

NextRender == CallSafeText \/ CallGenerateFirPdf \/ CallApiGenerateFirPdf

SpecRender == InitRender /\ [][NextRender]_vars

---------------------------------------------------------------------------
(* Properties of the renderer, stated over the last call *)

\* the fields of the input record that are absent, None or empty
MissingIn(fir) == {k \in RenderedKeys : k \notin DOMAIN fir \/ ~Truthy(fir[k])}

\* C9: whatever subset of the rendered fields is absent, null or empty,
\* generate_fir_pdf does not raise and writes "N/A" in the slot of every such
\* field.
C9_MissingFieldsRenderNA ==
    (call.fn \in {"generate_fir_pdf", "api_generate_fir_pdf"}) =>
        /\ ~call.result.raised
        /\ \A i \in 1..Len(call.result.cells) :
               LET keys == IF call.fn = "generate_fir_pdf" THEN FIELDS ELSE API_FIELDS
               IN  keys[i].key \in MissingIn(input.fir) => call.result.cells[i].text = NA

\* What holds of src/app.py alone: its generate_fir_pdf writes all 14 slots and
\* "N/A" in each slot whose field is missing.
AppRendererWritesNA ==
    call.fn = "generate_fir_pdf" =>
        /\ ~call.result.raised
        /\ Len(call.result.cells) = 14
        /\ \A i \in 1..14 :
               FIELDS[i].key \in MissingIn(input.fir) => call.result.cells[i].text = NA

\* C10 as stated: for every text and every width w, no line of
\* safe_text(text, w) is longer than w.
C10_NoLineBeyondAnyWidth ==
    call.fn = "safe_text" =>
        \A i \in 1..Len(Lines(call.result)) : Len(Lines(call.result)[i]) <= input.width

\* C10 amended: for every non-empty text and every width w >= 1, and for
\* every text when w >= 3, no line of safe_text(text, w) is longer than w; an
\* empty or missing text yields the 3-character "N/A" whatever w.
C10_NoLineBeyondWidth ==
    (call.fn = "safe_text" /\ (Truthy(input.text) \/ input.width >= 3)) =>
        \A i \in 1..Len(Lines(call.result)) : Len(Lines(call.result)[i]) <= input.width

\* C10 witness: one unbroken token several widths long came out as full lines
C10_Witness ==
    /\ call.fn = "safe_text"
    /\ input.width = 2
    /\ input.text = Str(<<"a", "a", "a", "a", "a", "a">>)
    /\ Lines(call.result) = << <<"a", "a">>, <<"a", "a">>, <<"a", "a">> >>

---------------------------------------------------------------------------
(* The web application: the route handlers of src/app.py and of             *)
(* src/api/app.py.  One of the two entry points is the running process      *)
(* (deployment); each handler is one action, and every action records the   *)
(* exchange it served in resp.                                              *)

MaxUsers == 2
MaxReports == 2

Usernames == {<<"asha">>, <<"ravi">>}
Passwords == {<<"pw1">>, <<"pw2">>}
\* the password each user registers with (a login may present either)
ChosenPassword(username) == IF username = <<"asha">> THEN <<"pw1">> ELSE <<"pw2">>

\* werkzeug.security: check_password_hash(generate_password_hash(p), q) iff p = q
generate_password_hash(password) == <<"pbkdf2", password>>
check_password_hash(hash, password) == hash = <<"pbkdf2", password>>

\* request.form of a POST to /report: the submitted fields
OptionalFields == {"company_name", "company_address", "industry", "email", "phone",
                   "accused_name", "accused_role", "witness_name", "witness_contact",
                   "location_details", "violation_type", "incident_date"}
FormNames == {"no_name", "required_only", "full"}
FormData(name) ==
    [k \in (IF name = "no_name" THEN {} ELSE {"full_name"})
            \cup {"description"} \cup OptionalFields |->
        IF k = "full_name" THEN Str(<<"A">>)
        ELSE IF k = "description" THEN Str(<<"x">>)
        ELSE IF name = "full" THEN Str(<<"a">>) ELSE Str(<<>>)]

\* how the remote service behaves during one submission
ServiceNames == {"all_fail", "all_answer"}
ServiceData(name) ==
    [m \in ModelNames |-> IF name = "all_fail" THEN Raise ELSE Response(Str(GoodReply))]

Exchange(op, c, method, form, fir_id, result, flash, shown) ==
    [op |-> op, client |-> c, method |-> method, form |-> form, fir_id |-> fir_id,
     result |-> result, flash |-> flash, shown |-> shown]

\* "user_id" in session (src/app.py) / "user" in session (src/api/app.py)
LoggedIn(c) == IF deployment = "app" THEN session[c].user_id # 0
               ELSE session[c].user # None

\* NewRow with the status made to tell a failed analysis apart
NewRow_StatusByOutcome(id, user_id, form, laws, actions) ==
    [id               |-> id,
     user_id          |-> user_id,
     name             |-> Get(form, "full_name", None),
     company          |-> Get(form, "company_name", None),
     company_address  |-> Get(form, "company_address", None),
     industry         |-> Get(form, "industry", None),
     email            |-> Get(form, "email", None),
     phone            |-> Get(form, "phone", None),
     accused_name     |-> Get(form, "accused_name", None),
     accused_role     |-> Get(form, "accused_role", None),
     witness_name     |-> Get(form, "witness_name", None),
     witness_contact  |-> Get(form, "witness_contact", None),
     location_details |-> Get(form, "location_details", None),
     violation_type   |-> Get(form, "violation_type", None),
     incident_date    |-> Get(form, "incident_date", None),
     description      |-> Get(form, "description", None),
     status           |-> IF actions = TRY_AGAIN THEN Str(<<"Failed">>)
                          ELSE Str(<<"Analyzed">>),
     laws             |-> Str(laws),
     actions          |-> Str(actions)]

\* src/app.py:211-236: the row INSERTed, id being the next rowid
NewRow(id, user_id, form, laws, actions) ==
    [id               |-> id,
     user_id          |-> user_id,
     name             |-> Get(form, "full_name", None),
     company          |-> Get(form, "company_name", None),
     company_address  |-> Get(form, "company_address", None),
     industry         |-> Get(form, "industry", None),
     email            |-> Get(form, "email", None),
     phone            |-> Get(form, "phone", None),
     accused_name     |-> Get(form, "accused_name", None),
     accused_role     |-> Get(form, "accused_role", None),
     witness_name     |-> Get(form, "witness_name", None),
     witness_contact  |-> Get(form, "witness_contact", None),
     location_details |-> Get(form, "location_details", None),
     violation_type   |-> Get(form, "violation_type", None),
     incident_date    |-> Get(form, "incident_date", None),
     description      |-> Get(form, "description", None),
     status           |-> Str(<<"Analyzed">>),
     laws             |-> Str(laws),
     actions          |-> Str(actions)]

\* src/api/app.py:134-141: the dict appended
ApiNewFir(form, laws, actions) ==
    [name        |-> Get(form, "full_name", None),
     company     |-> Get(form, "company_name", None),
     description |-> Get(form, "description", None),
     status      |-> Str(<<"Analyzed">>),
     laws        |-> Str(laws),
     actions     |-> Str(actions)]

Init ==
    /\ WebStart
    /\ deployment \in {"app", "api"}
    /\ api_key \in {None, Str(<<"k">>)}
    /\ DEFAULT_MODEL = "gemini-1.5-flash"
    /\ input = NoInput
    /\ call = NoCall

config == <<api_key, DEFAULT_MODEL, deployment, input, call>>

(* ------------------------------ src/app.py ------------------------------ *)

\* src/app.py:79-99
register(c, method, username, password) ==
    /\ deployment = "app"
    /\ IF method = "GET"
       THEN /\ resp' = Exchange("register", c, method, "", 0, "render:register", "", <<>>)
            /\ UNCHANGED users
       ELSE IF \E i \in 1..Len(users) : users[i].username = username
       THEN /\ resp' = Exchange("register", c, method, "", 0, "render:register",
                                "Username already exists.", <<>>)
            /\ UNCHANGED users
       ELSE /\ Len(users) < MaxUsers
            /\ users' = Append(users, [username |-> username,
                                       password_hash |-> generate_password_hash(password)])
            /\ resp' = Exchange("register", c, method, "", 0, "redirect:login",
                                "Registered successfully! Please login.", <<>>)
    /\ UNCHANGED <<fir_reports, session, submitter, config>>

\* src/app.py:102-120
login(c, method, username, password) ==
    /\ deployment = "app"
    /\ LET found == {i \in 1..Len(users) : users[i].username = username}
       IN  IF method = "POST" /\ found # {}
              /\ check_password_hash(users[Min(found)].password_hash, password)
           THEN /\ session' = [session EXCEPT ![c] =
                                  [user_id |-> Min(found), user |-> Str(username)]]
                /\ resp' = Exchange("login", c, method, "", 0, "redirect:dashboard",
                                    "Welcome", <<>>)
           ELSE /\ resp' = Exchange("login", c, method, "", 0, "render:login",
                                    IF method = "POST" THEN "Invalid credentials" ELSE "",
                                    <<>>)
                /\ UNCHANGED session
    /\ UNCHANGED <<users, fir_reports, submitter, config>>

\* src/app.py:123-128
logout(c) ==
    /\ deployment = "app"
    /\ session' = [session EXCEPT ![c] = NoSession]
    /\ resp' = Exchange("logout", c, "GET", "", 0, "redirect:home",
                        "Logged out successfully!", <<>>)
    /\ UNCHANGED <<users, fir_reports, submitter, config>>

\* src/app.py:131-141
dashboard(c) ==
    /\ deployment = "app"
    /\ resp' = IF ~LoggedIn(c)
               THEN Exchange("dashboard", c, "GET", "", 0, "redirect:login",
                             "Please login first.", <<>>)
               ELSE Exchange("dashboard", c, "GET", "", 0, "render:dashboard", "",
                             SelectSeq(fir_reports,
                                       LAMBDA r : r.user_id = session[c].user_id))
    /\ UNCHANGED <<users, fir_reports, session, submitter, config>>

\* src/app.py:200-243
report(c, method, form, service) ==
    /\ deployment = "app"
    /\ IF ~LoggedIn(c)
       THEN /\ resp' = Exchange("report", c, method, form, 0, "redirect:login",
                                "Please login first.", <<>>)
            /\ UNCHANGED <<fir_reports, submitter>>
       ELSE IF method = "GET"
       THEN /\ resp' = Exchange("report", c, method, form, 0, "render:report", "", <<>>)
            /\ UNCHANGED <<fir_reports, submitter>>
       ELSE LET description == Get(FormData(form), "description", None)
                analysis    == analyze_fir(api_key, FALLBACK_MODELS,
                                           ServiceData(service), description)
                row         == NewRow(Len(fir_reports) + 1, session[c].user_id,
                                      FormData(form), analysis.laws, analysis.actions)
            IN  IF analysis.raised \/ row.name = None
                THEN \* an exception leaves the handler (NOT NULL constraint
                     \* on name): nothing is committed
                     /\ resp' = Exchange("report", c, method, form, 0, "error:500",
                                         "", <<>>)
                     /\ UNCHANGED <<fir_reports, submitter>>
                ELSE /\ Len(fir_reports) < MaxReports
                     /\ fir_reports' = Append(fir_reports, row)
                     /\ submitter' = Append(submitter, session[c].user)
                     /\ resp' = Exchange("report", c, method, form, 0,
                                         "redirect:dashboard",
                                         "FIR submitted successfully!", <<>>)
    /\ UNCHANGED <<users, session, config>>

\* src/app.py:312-332; a PDF response carries the row fetched and what
\* generate_fir_pdf made of it
download_fir(c, fir_id, fonts_present) ==
    /\ deployment = "app"
    /\ resp' =
         IF ~LoggedIn(c)
         THEN Exchange("download", c, "GET", "", fir_id, "redirect:login",
                       "Please login first.", <<>>)
         ELSE LET fir_row == SelectSeq(fir_reports,
                                LAMBDA r : r.id = fir_id /\ r.user_id = session[c].user_id)
              IN  IF fir_row = <<>>
                  THEN Exchange("download", c, "GET", "", fir_id, "redirect:dashboard",
                                "Invalid FIR ID or you do not have permission to download this report.",
                                <<>>)
                  ELSE Exchange("download", c, "GET", "", fir_id, "pdf", "",
                                <<fir_row[1],
                                  generate_fir_pdf(fir_row[1], fonts_present)>>)
    /\ UNCHANGED <<users, fir_reports, session, submitter, config>>

(* ---------------------------- src/api/app.py ---------------------------- *)

\* src/api/app.py:38-46
api_register(c, method, username, password) ==
    /\ deployment = "api"
    /\ IF method = "GET"
       THEN /\ resp' = Exchange("register", c, method, "", 0, "render:register", "", <<>>)
            /\ UNCHANGED users
       ELSE /\ Len(users) < MaxUsers
            /\ users' = Append(users, [username |-> username, password |-> password])
            /\ resp' = Exchange("register", c, method, "", 0, "redirect:login",
                                "Registered successfully! Please login.", <<>>)
    /\ UNCHANGED <<fir_reports, session, submitter, config>>

\* src/api/app.py:49-60
api_login(c, method, username, password) ==
    /\ deployment = "api"
    /\ IF method = "POST" /\ \E i \in 1..Len(users) :
                                 users[i].username = username /\ users[i].password = password
       THEN /\ session' = [session EXCEPT ![c] = [user_id |-> 0, user |-> Str(username)]]
            /\ resp' = Exchange("login", c, method, "", 0, "redirect:dashboard",
                                "Welcome", <<>>)
       ELSE /\ resp' = Exchange("login", c, method, "", 0, "render:login",
                                IF method = "POST" THEN "Invalid credentials" ELSE "",
                                <<>>)
            /\ UNCHANGED session
    /\ UNCHANGED <<users, fir_reports, submitter, config>>

\* src/api/app.py:63-67
api_logout(c) ==
    /\ deployment = "api"
    /\ session' = [session EXCEPT ![c] = NoSession]
    /\ resp' = Exchange("logout", c, "GET", "", 0, "redirect:home",
                        "Logged out successfully!", <<>>)
    /\ UNCHANGED <<users, fir_reports, submitter, config>>

\* src/api/app.py:70-75
api_dashboard(c) ==
    /\ deployment = "api"
    /\ resp' = IF ~LoggedIn(c)
               THEN Exchange("dashboard", c, "GET", "", 0, "redirect:login",
                             "Please login first.", <<>>)
               ELSE Exchange("dashboard", c, "GET", "", 0, "render:dashboard", "",
                             fir_reports)
    /\ UNCHANGED <<users, fir_reports, session, submitter, config>>

\* src/api/app.py:124-145
api_report(c, method, form, service) ==
    /\ deployment = "api"
    /\ IF ~LoggedIn(c)
       THEN /\ resp' = Exchange("report", c, method, form, 0, "redirect:login",
                                "Please login first.", <<>>)
            /\ UNCHANGED <<fir_reports, submitter>>
       ELSE IF method = "GET"
       THEN /\ resp' = Exchange("report", c, method, form, 0, "render:report", "", <<>>)
            /\ UNCHANGED <<fir_reports, submitter>>
       ELSE LET description == Get(FormData(form), "description", None)
                analysis    == api_analyze_fir(api_key, ServiceData(service), description)
            IN  IF analysis.raised
                THEN /\ resp' = Exchange("report", c, method, form, 0, "error:500",
                                         "", <<>>)
                     /\ UNCHANGED <<fir_reports, submitter>>
                ELSE /\ Len(fir_reports) < MaxReports
                     /\ fir_reports' = Append(fir_reports,
                            ApiNewFir(FormData(form), analysis.laws, analysis.actions))
                     /\ submitter' = Append(submitter, session[c].user)
                     /\ resp' = Exchange("report", c, method, form, 0,
                                         "redirect:dashboard",
                                         "FIR submitted successfully!", <<>>)
    /\ UNCHANGED <<users, session, config>>

\* src/api/app.py:148-160; fir_reports[fir_id] counts from 0
api_download_fir(c, fir_id) ==
    /\ deployment = "api"
    /\ resp' =
         IF ~LoggedIn(c)
         THEN Exchange("download", c, "GET", "", fir_id, "redirect:login",
                       "Please login first.", <<>>)
         ELSE IF fir_id >= Len(fir_reports)
         THEN Exchange("download", c, "GET", "", fir_id, "redirect:dashboard",
                       "Invalid FIR ID", <<>>)
         ELSE Exchange("download", c, "GET", "", fir_id, "pdf", "",
                       <<fir_reports[fir_id + 1],
                         api_generate_fir_pdf(fir_reports[fir_id + 1])>>)
    /\ UNCHANGED <<users, fir_reports, session, submitter, config>>

Methods == {"GET", "POST"}
\* the ids a client may ask for: the route takes any non-negative integer
FirIds == 0..MaxReports

Next ==
    \/ \E c \in Clients, m \in Methods, u \in Usernames : register(c, m, u, ChosenPassword(u))
    \/ \E c \in Clients, m \in Methods, u \in Usernames, p \in Passwords : login(c, m, u, p)
    \/ \E c \in Clients : logout(c)
    \/ \E c \in Clients : dashboard(c)
    \/ \E c \in Clients : report(c, "GET", "", "all_fail")
    \/ \E c \in Clients, f \in FormNames, s \in ServiceNames : report(c, "POST", f, s)
    \/ \E c \in Clients, i \in FirIds, fonts \in BOOLEAN : download_fir(c, i, fonts)
    \/ \E c \in Clients, m \in Methods, u \in Usernames : api_register(c, m, u, ChosenPassword(u))
    \/ \E c \in Clients, m \in Methods, u \in Usernames, p \in Passwords : api_login(c, m, u, p)
    \/ \E c \in Clients : api_logout(c)
    \/ \E c \in Clients : api_dashboard(c)
    \/ \E c \in Clients : api_report(c, "GET", "", "all_fail")
    \/ \E c \in Clients, f \in FormNames, s \in ServiceNames : api_report(c, "POST", f, s)
    \/ \E c \in Clients, i \in FirIds : api_download_fir(c, i)

Spec == Init /\ [][Next]_vars

---------------------------------------------------------------------------
(* Properties of the web application *)

\* the place in fir_reports of the report a /download/<fir_id> names: the
\* row with that id (src/app.py), the list index counted from 0 (src/api/app.py)
PlaceOf(fir_id) == IF deployment = "app" THEN fir_id ELSE fir_id + 1

\* the requester of the last exchange is logged in as the user who submitted
\* the report at this place
OwnReport(place) ==
    /\ LoggedIn(resp.client)
    /\ place \in 1..Len(fir_reports)
    /\ submitter[place] = session[resp.client].user

\* C4: a download of a report that does not exist or that another user
\* submitted is rejected with a redirect and carries none of the report's
\* data; a PDF is produced only for a report the requester owns.
C4_DownloadOnlyOwnReport ==
    (resp.op = "download" /\ ~OwnReport(PlaceOf(resp.fir_id))) =>
        /\ resp.result \in {"redirect:login", "redirect:dashboard"}
        /\ resp.shown = <<>>

\* What holds of src/app.py alone: its download_fir serves the requester's own
\* reports only.
AppDownloadOnlyOwnReport == deployment = "app" => C4_DownloadOnlyOwnReport

\* the last exchange is a submission by a logged-in user with name and
\* description populated (stated of the state after it)
Submission ==
    /\ resp.op = "report"
    /\ resp.method = "POST"
    /\ LoggedIn(resp.client)
    /\ Truthy(Get(FormData(resp.form), "full_name", None))
    /\ Truthy(Get(FormData(resp.form), "description", None))

\* what the analysis can have returned for a description
Outcomes(description) ==
    {IF deployment = "app"
     THEN analyze_fir(api_key, FALLBACK_MODELS, ServiceData(s), description)
     ELSE api_analyze_fir(api_key, ServiceData(s), description) : s \in ServiceNames}

\* C7: every submission by a logged-in user with name and description
\* populated is answered with success and adds exactly one record, holding
\* what the analysis returned as laws and actions; and every record stored has
\* status "Analyzed", whatever the analysis returned.
C7_SubmissionStoresOneAnalyzedRecord ==
    [][ /\ \A i \in 1..Len(fir_reports') : fir_reports'[i].status = Str(<<"Analyzed">>)
        /\ Submission' =>
             /\ resp'.result = "redirect:dashboard"
             /\ Len(fir_reports') = Len(fir_reports) + 1
             /\ SubSeq(fir_reports', 1, Len(fir_reports)) = fir_reports
             /\ LET new == fir_reports'[Len(fir_reports')]
                IN  /\ new.name = Get(FormData(resp'.form), "full_name", None)
                    /\ new.description = Get(FormData(resp'.form), "description", None)
                    /\ \E a \in Outcomes(new.description) :
                           new.laws = Str(a.laws) /\ new.actions = Str(a.actions)
      ]_vars

\* C7 witness: src/app.py stored a second record, from a form with only the
\* required fields, while every candidate model failed.
C7_Witness ==
    /\ deployment = "app"
    /\ Submission
    /\ resp.form = "required_only"
    /\ resp.result = "redirect:dashboard"
    /\ Len(fir_reports) = 2
    /\ fir_reports[2].company = Str(<<>>)
    /\ fir_reports[2].laws = Str(GUIDANCE)
    /\ fir_reports[2].status = Str(<<"Analyzed">>)

\* the record at this place names as owner the user who submitted it
OwnedBySubmitter(place) ==
    /\ "user_id" \in DOMAIN fir_reports[place]
    /\ fir_reports[place].user_id \in 1..Len(users)
    /\ Str(users[fir_reports[place].user_id].username) = submitter[place]

\* C8: every stored report belongs to one owning user, the user logged in when
\* it was submitted, and no operation changes or removes a stored report.
C8_ReportsOwnedAndNeverChanged ==
    [][ /\ \A i \in 1..Len(fir_reports') : OwnedBySubmitter(i)'
        /\ Len(fir_reports') >= Len(fir_reports)
        /\ SubSeq(fir_reports', 1, Len(fir_reports)) = fir_reports
      ]_vars

\* What holds of both entry points: a stored report is never changed or removed.
ReportsNeverChanged ==
    [][ /\ Len(fir_reports') >= Len(fir_reports)
        /\ SubSeq(fir_reports', 1, Len(fir_reports)) = fir_reports
        /\ SubSeq(submitter', 1, Len(submitter)) = submitter
      ]_vars

\* What holds of src/app.py alone: every row names its submitter as owner.
AppReportsOwned ==
    deployment = "app" => \A i \in 1..Len(fir_reports) : OwnedBySubmitter(i)

=============================================================================
